---- MODULE Spec2Model ----
(***************************************************************************)
(* Smart-home change tracking (homes/models.py, homes/admin.py,            *)
(* homes/views.py, homes/serializers.py).                                  *)
(*                                                                         *)
(* The database tables (House, Room, Light, Thermostat, TrackRecord), the  *)
(* in-memory model instances with their FieldTracker snapshot, the save    *)
(* hooks that append TrackRecords, TrackRecord validation, cascading       *)
(* deletes, the REST views with their permission check and nested ids,     *)
(* the admin pages of TrackRecords (change list, add, change, delete),      *)
(* and the rendering of a TrackRecord (its __str__).                       *)
(*                                                                         *)
(* Left out: the created/modified timestamps of House, Room, Light and     *)
(* Thermostat rows and the created timestamp of a TrackRecord (nothing     *)
(* reads them), pagination.                                                *)
(***************************************************************************)
EXTENDS Integers, Sequences, FiniteSets, TLC

VARIABLES
    db,       \* db[kind]: the table of that model, primary key -> row
    nextId,   \* nextId[kind]: the next auto-increment primary key of the table
    records,  \* the TrackRecord table, in insertion (primary key) order
    nextRec,  \* the next auto-increment primary key of TrackRecord
    now,      \* the clock read by auto_now
    inst,     \* in-memory model instances held by callers, by slot
    last,     \* the last operation: its inputs and its outcome
    ops       \* number of operations the run may still perform

vars == <<db, nextId, records, nextRec, now, inst, last, ops>>

-----------------------------------------------------------------------------
(* Bounds of the model *)

MaxId == 2
MaxRecords == 3
MaxInst == 1
MaxOps == 3
\* the specification of callers holding instances (SpecCallers)
MaxCallers == 2
MaxCallerOps == 6
\* the specification of callers holding TrackRecords (SpecRender)
MaxRenderOps == 5

-----------------------------------------------------------------------------
(* Model names and choices *)

HOUSE == "house"
ROOM == "room"
LIGHT == "light"
THERMOSTAT == "thermostat"

Kinds == {HOUSE, ROOM, LIGHT, THERMOSTAT}

\* limit_choices_to of TrackRecord.target_content_type
equipments == {LIGHT, ROOM, THERMOSTAT}

MODES == {"off", "fan", "auto", "cool", "heat"}
\* STATE of models.py (STATE is a reserved word of TLA+)
STATES == {"on", "off"}
TYPE == {"State", "Temperature", "Mode", "Temperature set point"}

\* max_length of TrackRecord.from_state and TrackRecord.to_state
FromStateMaxLength == 6
ToStateMaxLength == 6
\* max_length of TrackRecord.state_type
StateTypeMaxLength == 25
\* decimal_places of the DecimalFields
DecimalPlaces == 2

\* the value of pk before the first save (None)
NoPk == 0

\* The model owning a model's rows: Room.house, Thermostat.house, Light.room
OwnerKind(kind) ==
    CASE kind = ROOM -> HOUSE
      [] kind = THERMOSTAT -> HOUSE
      [] kind = LIGHT -> ROOM

-----------------------------------------------------------------------------
(* Decimal values: u * 10^-e, as Python's Decimal keeps them (coefficient  *)
(* and exponent), so that 30 and 30.00 are equal and print differently.    *)

Dec(u, e) == [u |-> u, e |-> e]

Pow10(n) == CASE n = 0 -> 1 [] n = 1 -> 10 [] n = 2 -> 100 [] OTHER -> 1000

Abs(n) == IF n < 0 THEN 0 - n ELSE n

Digit ==
    [i \in 0..9 |->
        CASE i = 0 -> "0" [] i = 1 -> "1" [] i = 2 -> "2" [] i = 3 -> "3"
          [] i = 4 -> "4" [] i = 5 -> "5" [] i = 6 -> "6" [] i = 7 -> "7"
          [] i = 8 -> "8" [] i = 9 -> "9"]

\* str(n) of a natural number
RECURSIVE NatStr(_)
NatStr(n) == IF n < 10 THEN Digit[n] ELSE NatStr(n \div 10) \o Digit[n % 10]

\* the e fraction digits of f, zero padded
RECURSIVE FracStr(_, _)
FracStr(f, e) == IF e = 0 THEN "" ELSE FracStr(f \div 10, e - 1) \o Digit[f % 10]

\* str(Decimal): sign, integer digits, and as many fraction digits as the
\* value's exponent says
DecStr(d) ==
    (IF d.u < 0 THEN "-" ELSE "")
        \o NatStr(Abs(d.u) \div Pow10(d.e))
        \o (IF d.e = 0 THEN "" ELSE "." \o FracStr(Abs(d.u) % Pow10(d.e), d.e))

\* Decimal.__eq__ / __ne__: numeric comparison
DecEq(a, b) == a.u * Pow10(b.e) = b.u * Pow10(a.e)

\* The value a DecimalField(decimal_places=2) column gives back on load, and
\* the value the REST serializer's DecimalField produces from the request
Quantize(d) == Dec(d.u * Pow10(DecimalPlaces - d.e), DecimalPlaces)

-----------------------------------------------------------------------------
(* Fields *)

DecimalFields == {"current_temperature", "temperature_set_point"}

\* The fields of a model besides name and the owner reference
FieldsOf(kind) ==
    CASE kind = THERMOSTAT -> {"mode", "current_temperature", "temperature_set_point"}
      [] kind = ROOM -> {"current_temperature"}
      [] kind = LIGHT -> {"state"}

\* CharField.to_python of TrackRecord.from_state / to_state: str(value)
ToStr(field, v) == IF field \in DecimalFields THEN DecStr(v) ELSE v

\* the != of has_changed
ValEq(field, a, b) == IF field \in DecimalFields THEN DecEq(a, b) ELSE a = b

\* What the database column keeps of an in-memory value
ToDb(field, v) == IF field \in DecimalFields THEN Quantize(v) ELSE v

-----------------------------------------------------------------------------
(* In-memory instances and their FieldTracker                              *)
(*   kind, pk, name, owner, vals: the attributes of the instance           *)
(*   saved: the tracker's saved_data, a snapshot of the tracked fields     *)
(*   adding: _state.adding, true until the instance is loaded or saved     *)

NoInst == [kind |-> "none"]

EmptySaved == [f \in {} |-> ""]

\* FieldInstanceTracker.set_saved_fields: no snapshot while the instance has no
\* pk, else a copy of the current in-memory values
SetSavedFields(i) == IF i.pk = NoPk THEN EmptySaved ELSE i.vals

\* Model.__init__ followed by the tracker's post_init
NewInstance(kind, pk, name, owner, vals) ==
    LET i == [kind |-> kind, pk |-> pk, name |-> name, owner |-> owner,
              vals |-> vals, saved |-> EmptySaved, adding |-> TRUE]
    IN  [i EXCEPT !.saved = SetSavedFields(i)]

\* Model.objects.get(id=pk): the instance materialized from its row
FromDb(kind, pk, row) ==
    [NewInstance(kind, pk, row.name, row.owner, row.vals) EXCEPT !.adding = FALSE]

\* tracker.has_changed(field): previous(field) != current value, where
\* previous is None when there is no snapshot
HasChangedByRepresentation(i, field) ==
    IF field \in DOMAIN i.saved
    THEN i.saved[field] # i.vals[field]
    ELSE TRUE

HasChanged(i, field) ==
    IF field \in DOMAIN i.saved
    THEN ~ValEq(field, i.saved[field], i.vals[field])
    ELSE TRUE

\* str(tracker.previous(field)): the snapshot value, "None" without snapshot
PreviousStr(i, field) ==
    IF field \in DOMAIN i.saved THEN ToStr(field, i.saved[field]) ELSE "None"

-----------------------------------------------------------------------------
(* TrackRecord *)

\* str(ContentType): the lowercase model name
ContentTypeStr(ct) == ct

\* GenericForeignKey target: whether (content type, object id) resolves
TargetExists(D, ct, oid) == ct \in Kinds /\ oid \in DOMAIN D[ct]

\* TrackRecord.clean
CleanAlwaysPasses(c, D) == {}

Clean(c, D) ==
    IF ~TargetExists(D, c.target_content_type, c.target_object_id)
    THEN {ContentTypeStr(c.target_content_type) \o " with id "
              \o NatStr(c.target_object_id) \o " does not exist!"}
    ELSE {}

\* Model.clean_fields of a TrackRecord: blank and max_length of the CharFields,
\* choices of state_type, limit_choices_to of target_content_type
CleanFieldsAnyContentType(c) ==
    (IF c.name = "" THEN {"name: This field cannot be blank."} ELSE {})
    \cup (IF c.state_type \notin TYPE \/ Len(c.state_type) > StateTypeMaxLength
          THEN {"state_type: not a valid choice."}
          ELSE {})
    \cup (IF c.from_state = "" THEN {"from_state: This field cannot be blank."} ELSE {})
    \cup (IF Len(c.from_state) > FromStateMaxLength
          THEN {"from_state: Ensure this value has at most 6 characters."}
          ELSE {})
    \cup (IF c.to_state = "" THEN {"to_state: This field cannot be blank."} ELSE {})
    \cup (IF Len(c.to_state) > ToStateMaxLength
          THEN {"to_state: Ensure this value has at most 6 characters."}
          ELSE {})

CleanFields(c) ==
    (IF c.name = "" THEN {"name: This field cannot be blank."} ELSE {})
    \cup (IF c.target_content_type \notin equipments
          THEN {"target_content_type: content type instance does not exist."}
          ELSE {})
    \cup (IF c.state_type \notin TYPE \/ Len(c.state_type) > StateTypeMaxLength
          THEN {"state_type: not a valid choice."}
          ELSE {})
    \cup (IF c.from_state = "" THEN {"from_state: This field cannot be blank."} ELSE {})
    \cup (IF Len(c.from_state) > FromStateMaxLength
          THEN {"from_state: Ensure this value has at most 6 characters."}
          ELSE {})
    \cup (IF c.to_state = "" THEN {"to_state: This field cannot be blank."} ELSE {})
    \cup (IF Len(c.to_state) > ToStateMaxLength
          THEN {"to_state: Ensure this value has at most 6 characters."}
          ELSE {})

\* Model.full_clean as TrackRecord.save calls it: the messages of the
\* ValidationError, none when the record is valid
FullClean(c, D) == CleanFields(c) \cup Clean(c, D)

\* TrackRecord.objects.create for each of cands in turn, each in its own
\* (autocommit) transaction: the first ValidationError ends the sequence and
\* leaves the earlier records in the table. Each creation reads the clock
\* (auto_now), which has advanced since the one before.
RECURSIVE CreateAll(_, _, _, _, _)
CreateAll(cands, D, R, nr, t) ==
    IF cands = <<>>
    THEN [records |-> R, nextRec |-> nr, now |-> t, err |-> {}]
    ELSE LET c == Head(cands)
             e == FullClean(c, D)
         IN  IF e # {}
             THEN [records |-> R, nextRec |-> nr, now |-> t, err |-> e]
             ELSE CreateAll(Tail(cands), D,
                            Append(R, [id |-> nr, modified |-> t] @@ c),
                            nr + 1, t + 1)

\* A TrackRecord instance held by a caller: the row as it was read, and the
\* target the GenericForeignKey has cached on the instance ({} before the
\* first access)
TRACKRECORD == "trackrecord"

RecordInstance(r) == [kind |-> TRACKRECORD, rec |-> r, cache |-> {}]

\* self.target (GenericForeignKey.__get__): the cached target while its type
\* and id are the instance's target_content_type and target_object_id (they
\* are, no caller reassigns them), else the row the query finds, else None
\* ({}). What it returns stays cached on the instance.
Target(i, D) ==
    IF i.cache # {}
    THEN i.cache
    ELSE IF TargetExists(D, i.rec.target_content_type, i.rec.target_object_id)
         THEN {[name |-> D[i.rec.target_content_type][i.rec.target_object_id].name]}
         ELSE {}

\* TrackRecord.__str__ with self.target = t: the string it returns, {} when it
\* falls off its end and returns None
TrackRecordStrOfNameCopy(i, t) ==
    IF t # {}
    THEN {"[" \o i.rec.name \o "] " \o i.rec.state_type
              \o " has been changed from " \o i.rec.from_state
              \o " to " \o i.rec.to_state \o " at " \o NatStr(i.rec.modified)}
    ELSE {}

TrackRecordStr(i, t) ==
    IF t # {}
    THEN {"[" \o (CHOOSE x \in t : TRUE).name \o "] " \o i.rec.state_type
              \o " has been changed from " \o i.rec.from_state
              \o " to " \o i.rec.to_state \o " at " \o NatStr(i.rec.modified)}
    ELSE {}

\* str(obj) of Python: the string __str__ returned, TypeError when it
\* returned None
Str(returned) ==
    IF returned = {}
    THEN [value |-> "",
          err |-> {"TypeError: __str__ returned non-string (type NoneType)"}]
    ELSE [value |-> CHOOSE x \in returned : TRUE, err |-> {}]

-----------------------------------------------------------------------------
(* The save hooks *)

\* The keyword arguments of one TrackRecord.objects.create of a save hook
TrackArgsOfOwner(i, field, label) ==
    [name |-> i.name,
     state_type |-> label,
     target_content_type |-> i.kind,
     target_object_id |-> i.owner,
     from_state |-> PreviousStr(i, field),
     to_state |-> ToStr(field, i.vals[field])]

TrackArgs(i, field, label) ==
    [name |-> i.name,
     state_type |-> label,
     target_content_type |-> i.kind,
     target_object_id |-> i.pk,
     from_state |-> PreviousStr(i, field),
     to_state |-> ToStr(field, i.vals[field])]

TrackAlways(i, field, label) == <<TrackArgs(i, field, label)>>

Track(i, field, label) ==
    IF HasChanged(i, field) THEN <<TrackArgs(i, field, label)>> ELSE <<>>

\* Thermostat.save up to super().save: the records it creates, in order
ThermostatTracksModeFirst(i) ==
    IF i.pk = NoPk
    THEN <<>>
    ELSE Track(i, "mode", "Mode")
             \o Track(i, "current_temperature", "Temperature")
             \o Track(i, "temperature_set_point", "Temperature set point")

ThermostatTracks(i) ==
    IF i.pk = NoPk
    THEN <<>>
    ELSE Track(i, "current_temperature", "Temperature")
             \o Track(i, "temperature_set_point", "Temperature set point")
             \o Track(i, "mode", "Mode")

\* Room.save up to super().save
RoomTracks(i) ==
    IF i.pk # NoPk THEN Track(i, "current_temperature", "Temperature") ELSE <<>>

\* Light.save up to super().save
LightTracks(i) ==
    IF i.pk # NoPk THEN Track(i, "state", "State") ELSE <<>>

Tracks(i) ==
    CASE i.kind = THERMOSTAT -> ThermostatTracks(i)
      [] i.kind = ROOM -> RoomTracks(i)
      [] i.kind = LIGHT -> LightTracks(i)

\* The row Model.save writes for an instance
RowOf(i) ==
    [name |-> i.name, owner |-> i.owner,
     vals |-> [f \in DOMAIN i.vals |-> ToDb(f, i.vals[f])]]

\* super().save(): INSERT with a fresh key when pk is None, else UPDATE of the
\* row (INSERT under the same key when there is no such row; the table's
\* next key stays above the largest key in use); the foreign key to the
\* owner must resolve. Then the tracker takes its new snapshot.
SuperSaveKeepsSnapshot(i, D, ids) ==
    IF i.owner \notin DOMAIN D[OwnerKind(i.kind)]
    THEN [db |-> D, nextId |-> ids, inst |-> i, err |-> {"IntegrityError"}]
    ELSE LET pk == IF i.pk = NoPk THEN ids[i.kind] ELSE i.pk
             j == [i EXCEPT !.pk = pk, !.adding = FALSE]
         IN  [db |-> [D EXCEPT ![i.kind] =
                         [k \in DOMAIN D[i.kind] \cup {pk} |->
                             IF k = pk THEN RowOf(j) ELSE D[i.kind][k]]],
              nextId |-> IF pk >= ids[i.kind]
                         THEN [ids EXCEPT ![i.kind] = pk + 1]
                         ELSE ids,
              inst |-> j,
              err |-> {}]

\* an UPDATE that is not restricted to the instance's row
SuperSaveEveryRow(i, D, ids) ==
    IF i.owner \notin DOMAIN D[OwnerKind(i.kind)]
    THEN [db |-> D, nextId |-> ids, inst |-> i, err |-> {"IntegrityError"}]
    ELSE LET pk == IF i.pk = NoPk THEN ids[i.kind] ELSE i.pk
             j == [i EXCEPT !.pk = pk, !.adding = FALSE]
         IN  [db |-> [D EXCEPT ![i.kind] =
                         [k \in DOMAIN D[i.kind] \cup {pk} |-> RowOf(j)]],
              nextId |-> IF pk >= ids[i.kind]
                         THEN [ids EXCEPT ![i.kind] = pk + 1]
                         ELSE ids,
              inst |-> [j EXCEPT !.saved = SetSavedFields(j)],
              err |-> {}]

SuperSave(i, D, ids) ==
    IF i.owner \notin DOMAIN D[OwnerKind(i.kind)]
    THEN [db |-> D, nextId |-> ids, inst |-> i, err |-> {"IntegrityError"}]
    ELSE LET pk == IF i.pk = NoPk THEN ids[i.kind] ELSE i.pk
             j == [i EXCEPT !.pk = pk, !.adding = FALSE]
         IN  [db |-> [D EXCEPT ![i.kind] =
                         [k \in DOMAIN D[i.kind] \cup {pk} |->
                             IF k = pk THEN RowOf(j) ELSE D[i.kind][k]]],
              nextId |-> IF pk >= ids[i.kind]
                         THEN [ids EXCEPT ![i.kind] = pk + 1]
                         ELSE ids,
              inst |-> [j EXCEPT !.saved = SetSavedFields(j)],
              err |-> {}]

\* instance.save() of a Room, Light or Thermostat: the save hook's records,
\* then super().save() unless a TrackRecord creation raised
SaveInstanceHookAfterSave(i, D, ids, R, nr, t) ==
    LET sv == SuperSave(i, D, ids)
        j == [i EXCEPT !.pk = sv.inst.pk]
        tr == CreateAll(Tracks(j), sv.db, R, nr, t)
    IN  [db |-> sv.db, nextId |-> sv.nextId, inst |-> sv.inst,
         records |-> tr.records, nextRec |-> tr.nextRec, now |-> tr.now,
         err |-> sv.err \cup tr.err]

\* a save that refuses an instance whose snapshot is not the stored row
SaveInstanceIfUnmodified(i, D, ids, R, nr, t) ==
    IF /\ i.pk \in DOMAIN D[i.kind]
       /\ \E f \in DOMAIN i.saved : ~ValEq(f, i.saved[f], D[i.kind][i.pk].vals[f])
    THEN [db |-> D, nextId |-> ids, inst |-> i, records |-> R,
          nextRec |-> nr, now |-> t, err |-> {"Conflict"}]
    ELSE LET tr == CreateAll(Tracks(i), D, R, nr, t)
         IN  IF tr.err # {}
             THEN [db |-> D, nextId |-> ids, inst |-> i, records |-> tr.records,
                   nextRec |-> tr.nextRec, now |-> tr.now, err |-> tr.err]
             ELSE LET sv == SuperSave(i, D, ids)
                  IN  [db |-> sv.db, nextId |-> sv.nextId, inst |-> sv.inst,
                       records |-> tr.records, nextRec |-> tr.nextRec,
                       now |-> tr.now, err |-> sv.err]

SaveInstance(i, D, ids, R, nr, t) ==
    LET tr == CreateAll(Tracks(i), D, R, nr, t)
    IN  IF tr.err # {}
        THEN [db |-> D, nextId |-> ids, inst |-> i, records |-> tr.records,
              nextRec |-> tr.nextRec, now |-> tr.now, err |-> tr.err]
        ELSE LET sv == SuperSave(i, D, ids)
             IN  [db |-> sv.db, nextId |-> sv.nextId, inst |-> sv.inst,
                  records |-> tr.records, nextRec |-> tr.nextRec,
                  now |-> tr.now, err |-> sv.err]

-----------------------------------------------------------------------------
(* Cascading deletes *)

RoomsOf(D, h) == {r \in DOMAIN D[ROOM] : D[ROOM][r].owner = h}
ThermostatsOf(D, h) == {t \in DOMAIN D[THERMOSTAT] : D[THERMOSTAT][t].owner = h}
LightsOf(D, r) == {l \in DOMAIN D[LIGHT] : D[LIGHT][l].owner = r}

\* The rows the deletion collector gathers for Model.delete of one row:
\* the row and, through on_delete=CASCADE, the rows it owns
CollectedOneLevel(D, kind, pk) ==
    CASE kind = HOUSE ->
            {<<HOUSE, pk>>}
            \cup {<<ROOM, r>> : r \in RoomsOf(D, pk)}
            \cup {<<THERMOSTAT, t>> : t \in ThermostatsOf(D, pk)}
      [] kind = ROOM ->
            {<<ROOM, pk>>} \cup {<<LIGHT, l>> : l \in LightsOf(D, pk)}
      [] OTHER -> {<<kind, pk>>}

Collected(D, kind, pk) ==
    CASE kind = HOUSE ->
            {<<HOUSE, pk>>}
            \cup {<<ROOM, r>> : r \in RoomsOf(D, pk)}
            \cup {<<THERMOSTAT, t>> : t \in ThermostatsOf(D, pk)}
            \cup {<<LIGHT, l>> : l \in UNION {LightsOf(D, r) : r \in RoomsOf(D, pk)}}
      [] kind = ROOM ->
            {<<ROOM, pk>>} \cup {<<LIGHT, l>> : l \in LightsOf(D, pk)}
      [] OTHER -> {<<kind, pk>>}

\* The TrackRecords the collector reaches through the GenericRelation
\* track_records of the collected rows
IsTrackRecordOfIdOnly(r, gone) == \E g \in gone : r.target_object_id = g[2]

IsTrackRecordOfTypeOnly(r, gone) == \E g \in gone : r.target_content_type = g[1]

IsTrackRecordOf(r, gone) ==
    <<r.target_content_type, r.target_object_id>> \in gone

DeleteRowsKeepRecords(D, R, gone) ==
    [db |-> [k \in Kinds |->
                [pk \in {x \in DOMAIN D[k] : <<k, x>> \notin gone} |-> D[k][pk]]],
     records |-> R]

\* Model.delete: one transaction removing the collected rows and their
\* TrackRecords
DeleteRows(D, R, gone) ==
    [db |-> [k \in Kinds |->
                [pk \in {x \in DOMAIN D[k] : <<k, x>> \notin gone} |-> D[k][pk]]],
     records |-> SelectSeq(R, LAMBDA r : ~IsTrackRecordOf(r, gone))]

-----------------------------------------------------------------------------
(* The serializers' nested ids *)

\* [x.id for x in Model.objects.filter(<owner>__id=id)] over the table T whose
\* keys are below n, in primary key order
RECURSIVE FilterIds(_, _, _)
FilterIds(T, id, n) ==
    IF n = 0
    THEN <<>>
    ELSE FilterIds(T, id, n - 1)
             \o (IF n \in DOMAIN T /\ T[n].owner = id THEN <<n>> ELSE <<>>)

\* HouseSerializer.get_thermostats
GetThermostats(D, ids, id) == FilterIds(D[THERMOSTAT], id, ids[THERMOSTAT] - 1)

\* HouseSerializer.get_rooms
GetRoomsFromThermostats(D, ids, id) == FilterIds(D[THERMOSTAT], id, ids[THERMOSTAT] - 1)

GetRooms(D, ids, id) == FilterIds(D[ROOM], id, ids[ROOM] - 1)

\* RoomSerializer.get_lights
GetLights(D, ids, id) == FilterIds(D[LIGHT], id, ids[LIGHT] - 1)

\* HouseSerializer(obj).data and RoomSerializer(obj).data
HouseData(D, ids, pk) ==
    [id |-> pk, name |-> D[HOUSE][pk].name,
     thermostats |-> GetThermostats(D, ids, pk), rooms |-> GetRooms(D, ids, pk)]

RoomData(D, ids, pk) ==
    [id |-> pk, name |-> D[ROOM][pk].name, house |-> D[ROOM][pk].owner,
     current_temperature |-> DecStr(D[ROOM][pk].vals.current_temperature),
     lights |-> GetLights(D, ids, pk)]

-----------------------------------------------------------------------------
(* The admin change list of TrackRecords *)

\* the lookups of CustomListFilter; "" is no value
Lookups == {"Light", "Room", "Thermostat"}

\* ContentType.objects.get_for_model(eval(value))
EvalModel(value) ==
    CASE value = "Light" -> LIGHT
      [] value = "Room" -> ROOM
      [] value = "Thermostat" -> THERMOSTAT

\* CustomListFilter.queryset
QuerysetUnfiltered(value, qs) == qs

Queryset(value, qs) ==
    IF value = ""
    THEN qs
    ELSE SelectSeq(qs, LAMBDA r : r.target_content_type = EvalModel(value))

\* ordering = ('-modified',), made total by the change list with -pk
Before(a, b) ==
    a.modified > b.modified \/ (a.modified = b.modified /\ a.id > b.id)

RECURSIVE InsertOrdered(_, _)
InsertOrdered(r, s) ==
    IF s = <<>> THEN <<r>>
    ELSE IF Before(r, Head(s)) THEN <<r>> \o s
    ELSE <<Head(s)>> \o InsertOrdered(r, Tail(s))

RECURSIVE OrderBy(_)
OrderBy(s) == IF s = <<>> THEN <<>> ELSE InsertOrdered(Head(s), OrderBy(Tail(s)))

\* The rows of the TrackRecordAdmin change list: the filter, then the ordering
ChangeListUnordered(value, R) == Queryset(value, R)

ChangeList(value, R) == OrderBy(Queryset(value, R))

\* TrackRecordAdmin.has_add_permission
HasAddPermission == FALSE

\* The fields of a TrackRecord row
TrackRecordFields ==
    {"id", "name", "modified", "target_content_type", "target_object_id",
     "state_type", "from_state", "to_state"}

\* TrackRecordAdmin.get_readonly_fields: every field once the object exists,
\* none on the add form (obj is None)
GetReadonlyFields(hasObj) == IF hasObj THEN TrackRecordFields ELSE {}

\* has_delete_permission of TrackRecordAdmin: the class does not override
\* ModelAdmin's, which grants it to a user holding the delete permission
\* (every superuser)
HasDeletePermission == TRUE

\* A sequence without its k-th element
RemoveAt(R, k) == SubSeq(R, 1, k - 1) \o SubSeq(R, k + 1, Len(R))

-----------------------------------------------------------------------------
(* Inputs *)

Names == {"n1", "n2"}
\* the name given to a new row
CreateNames == {"n1"}

\* Values a caller assigns to current_temperature: 30.00, the integer 77;
\* and to temperature_set_point: 45.00, 77.00, -100.00
TemperatureInputs == {Dec(3000, 2), Dec(77, 0)}
SetPointInputs == {Dec(4500, 2), Dec(7700, 2), Dec(-10000, 2)}
ModeInputs == {"cool", "fan"}
StateInputs == STATES

FieldInputs(field) ==
    CASE field = "current_temperature" -> TemperatureInputs
      [] field = "temperature_set_point" -> SetPointInputs
      [] field = "mode" -> ModeInputs
      [] field = "state" -> StateInputs

\* All assignments of the fields of a model
ValsInputs(kind) ==
    CASE kind = THERMOSTAT ->
            [mode : ModeInputs, current_temperature : TemperatureInputs,
             temperature_set_point : SetPointInputs]
      [] kind = ROOM -> [current_temperature : TemperatureInputs]
      [] kind = LIGHT -> [state : StateInputs]

\* Arguments of TrackRecord.objects.create made directly, as the tests do
DirectInputs ==
    [name : {"n1"},
     target_content_type : {HOUSE, ROOM},
     target_object_id : 1..MaxId,
     state_type : {"Temperature"},
     from_state : {"30"},
     to_state : {"40"}]
    \cup
    [name : {"n1"},
     target_content_type : {LIGHT},
     target_object_id : 1..MaxId,
     state_type : {"State"},
     from_state : {"on"},
     to_state : {"off"}]

\* The POST data of an admin change form of a TrackRecord
ChangeInputs == {[name |-> "n2", to_state |-> "off"]}

\* The body of a request sent without logging in
AnonymousName == "n2"
AnonymousVals(kind) ==
    CASE kind = THERMOSTAT ->
            [mode |-> "fan", current_temperature |-> Dec(77, 0),
             temperature_set_point |-> Dec(7700, 2)]
      [] kind = ROOM -> [current_temperature |-> Dec(3000, 2)]
      [] kind = LIGHT -> [state |-> "off"]

Slots == 1..MaxInst

-----------------------------------------------------------------------------
(* Initial state: one House with a Room, a Light in it and a Thermostat,   *)
(* as objects.create leaves them; no TrackRecord; no instance in memory.   *)

Fixture ==
    /\ db = [k \in Kinds |->
                CASE k = HOUSE -> (1 :> [name |-> "n1"])
                  [] k = ROOM ->
                        (1 :> [name |-> "n1", owner |-> 1,
                               vals |-> [current_temperature |-> Dec(7700, 2)]])
                  [] k = LIGHT ->
                        (1 :> [name |-> "n1", owner |-> 1,
                               vals |-> [state |-> "on"]])
                  [] k = THERMOSTAT ->
                        (1 :> [name |-> "n1", owner |-> 1,
                               vals |-> [mode |-> "cool",
                                         current_temperature |-> Dec(3000, 2),
                                         temperature_set_point |-> Dec(4500, 2)]])]
    /\ nextId = [k \in Kinds |-> 2]
    /\ records = <<>>
    /\ nextRec = 1
    /\ now = 0
    /\ last = [op |-> "init"]

Init ==
    /\ Fixture
    /\ inst = [s \in Slots |-> NoInst]
    /\ ops = MaxOps

-----------------------------------------------------------------------------
(* Operations *)

\* The permission check of the REST views before the handler runs: the
\* request must come from an authenticated user
HasPermissionAllowAny(auth) == TRUE

HasPermission(auth) == auth

\* The response to a request that fails the permission check: 403, and no
\* handler runs
Denied(method, kind) ==
    /\ last' = [op |-> "denied", auth |-> FALSE, method |-> method,
                kind |-> kind, status |-> 403]
    /\ UNCHANGED <<db, nextId, records, nextRec, now, inst>>

\* The state after instance.save() with outcome r
Saved(r) ==
    /\ db' = r.db
    /\ nextId' = r.nextId
    /\ records' = r.records
    /\ nextRec' = r.nextRec
    /\ now' = r.now

\* POST /api/houses/ (House.objects.create(name=name) when made in-process,
\* where no permission is asked: auth = TRUE)
CreateHouse(auth, name) ==
    /\ ops > 0
    /\ IF HasPermission(auth)
       THEN /\ nextId[HOUSE] <= MaxId
            /\ db' = [db EXCEPT ![HOUSE] =
                         (nextId[HOUSE] :> [name |-> name]) @@ db[HOUSE]]
            /\ nextId' = [nextId EXCEPT ![HOUSE] = @ + 1]
            /\ last' = [op |-> "create", auth |-> auth, kind |-> HOUSE,
                        pk |-> nextId[HOUSE], err |-> {}]
            /\ UNCHANGED <<records, nextRec, now, inst>>
       ELSE Denied("POST", HOUSE)
    /\ ops' = ops - 1

\* PUT /api/houses/<pk>/: House has no save hook
UpdateHouse(auth, pk, name) ==
    /\ ops > 0
    /\ IF HasPermission(auth)
       THEN /\ pk \in DOMAIN db[HOUSE]
            /\ db' = [db EXCEPT ![HOUSE][pk] = [name |-> name]]
            /\ last' = [op |-> "update", auth |-> auth, kind |-> HOUSE,
                        pk |-> pk, err |-> {}]
            /\ UNCHANGED <<nextId, records, nextRec, now, inst>>
       ELSE Denied("PUT", HOUSE)
    /\ ops' = ops - 1

\* Model.objects.create(...) of a Room, Light or Thermostat (POST on the API):
\* a new instance without pk, saved
Create(auth, kind, name, owner, vals) ==
    /\ ops > 0
    /\ IF HasPermission(auth)
       THEN /\ nextId[kind] <= MaxId
            /\ owner \in DOMAIN db[OwnerKind(kind)]
            /\ LET i == NewInstance(kind, NoPk, name, owner, vals)
                   r == SaveInstance(i, db, nextId, records, nextRec, now)
               IN  /\ Saved(r)
                   /\ last' = [op |-> "create", auth |-> auth, kind |-> kind,
                               pk |-> r.inst.pk, inst |-> i, err |-> r.err]
            /\ UNCHANGED inst
       ELSE Denied("POST", kind)
    /\ ops' = ops - 1

\* PUT /api/<kind>s/<pk>/: get_object, the serializer's validated (quantized)
\* values set on the instance, instance.save()
ApiUpdate(auth, kind, pk, name, owner, vals) ==
    /\ ops > 0
    /\ IF HasPermission(auth)
       THEN /\ pk \in DOMAIN db[kind]
            /\ owner \in DOMAIN db[OwnerKind(kind)]
            /\ LET loaded == FromDb(kind, pk, db[kind][pk])
                   i == [loaded EXCEPT
                            !.name = name, !.owner = owner,
                            !.vals = [f \in DOMAIN vals |-> ToDb(f, vals[f])]]
                   r == SaveInstance(i, db, nextId, records, nextRec, now)
               IN  /\ nextRec - 1 + Len(Tracks(i)) <= MaxRecords
                   /\ Saved(r)
                   /\ last' = [op |-> "update", auth |-> auth, kind |-> kind,
                               pk |-> pk, inst |-> i, err |-> r.err]
            /\ UNCHANGED inst
       ELSE Denied("PUT", kind)
    /\ ops' = ops - 1

\* instance = Model.objects.get(id=pk), kept by a caller
Load(s, kind, pk) ==
    /\ ops > 0
    /\ pk \in DOMAIN db[kind]
    /\ inst' = [inst EXCEPT ![s] = FromDb(kind, pk, db[kind][pk])]
    /\ last' = [op |-> "load", kind |-> kind, pk |-> pk, slot |-> s, err |-> {}]
    /\ ops' = ops - 1
    /\ UNCHANGED <<db, nextId, records, nextRec, now>>

\* instance = Model(id=pk, name=..., ...), or without id (pk = NoPk), kept by
\* a caller and not saved
New(s, kind, pk, name, owner, vals) ==
    /\ ops > 0
    /\ pk \notin DOMAIN db[kind]
    /\ inst' = [inst EXCEPT ![s] = NewInstance(kind, pk, name, owner, vals)]
    /\ last' = [op |-> "new", kind |-> kind, pk |-> pk, slot |-> s, err |-> {}]
    /\ ops' = ops - 1
    /\ UNCHANGED <<db, nextId, records, nextRec, now>>

\* instance.name = name
AssignName(s, name) ==
    /\ ops > 0
    /\ inst[s] # NoInst
    /\ inst[s].name # name
    /\ inst' = [inst EXCEPT ![s].name = name]
    /\ last' = [op |-> "assign", kind |-> inst[s].kind, pk |-> inst[s].pk,
                slot |-> s, err |-> {}]
    /\ ops' = ops - 1
    /\ UNCHANGED <<db, nextId, records, nextRec, now>>

\* instance.house = owner, instance.room = owner
AssignOwner(s, owner) ==
    /\ ops > 0
    /\ inst[s] # NoInst
    /\ inst[s].owner # owner
    /\ inst' = [inst EXCEPT ![s].owner = owner]
    /\ last' = [op |-> "assign", kind |-> inst[s].kind, pk |-> inst[s].pk,
                slot |-> s, err |-> {}]
    /\ ops' = ops - 1
    /\ UNCHANGED <<db, nextId, records, nextRec, now>>

\* setattr(instance, field, v) of a tracked field
Assign(s, field, v) ==
    /\ ops > 0
    /\ inst[s] # NoInst
    /\ field \in FieldsOf(inst[s].kind)
    /\ v \in FieldInputs(field)
    /\ inst[s].vals[field] # v
    /\ inst' = [inst EXCEPT ![s].vals[field] = v]
    /\ last' = [op |-> "assign", kind |-> inst[s].kind, pk |-> inst[s].pk,
                slot |-> s, err |-> {}]
    /\ ops' = ops - 1
    /\ UNCHANGED <<db, nextId, records, nextRec, now>>

\* instance.save() of an instance a caller holds
Save(s) ==
    /\ ops > 0
    /\ inst[s] # NoInst
    /\ LET i == inst[s]
           r == SaveInstance(i, db, nextId, records, nextRec, now)
       IN  /\ nextRec - 1 + Len(Tracks(i)) <= MaxRecords
           /\ i.pk = NoPk => nextId[i.kind] <= MaxId
           /\ Saved(r)
           /\ inst' = [inst EXCEPT ![s] = r.inst]
           /\ last' = [op |-> "update", kind |-> i.kind, pk |-> i.pk,
                       inst |-> i, slot |-> s, err |-> r.err]
    /\ ops' = ops - 1

\* instance.delete(), DELETE /api/<kind>s/<pk>/
Delete(auth, kind, pk) ==
    /\ ops > 0
    /\ IF HasPermission(auth)
       THEN /\ pk \in DOMAIN db[kind]
            /\ LET r == DeleteRows(db, records, Collected(db, kind, pk))
               IN  /\ db' = r.db
                   /\ records' = r.records
            /\ last' = [op |-> "delete", auth |-> auth, kind |-> kind,
                        pk |-> pk, err |-> {}]
            /\ UNCHANGED <<nextId, nextRec, now, inst>>
       ELSE Denied("DELETE", kind)
    /\ ops' = ops - 1

\* TrackRecord.objects.create(**c) made directly
CreateTrackRecord(c) ==
    /\ ops > 0
    /\ nextRec <= MaxRecords
    /\ LET r == CreateAll(<<c>>, db, records, nextRec, now)
       IN  /\ records' = r.records
           /\ nextRec' = r.nextRec
           /\ now' = r.now
           /\ last' = [op |-> "track", args |-> c, err |-> r.err]
    /\ ops' = ops - 1
    /\ UNCHANGED <<db, nextId, inst>>

\* The admin change list of TrackRecords with ?equipments=value
AdminList(value) ==
    /\ ops > 0
    /\ last' = [op |-> "list", value |-> value,
                result |-> ChangeList(value, records)]
    /\ ops' = ops - 1
    /\ UNCHANGED <<db, nextId, records, nextRec, now, inst>>

\* GET /api/houses/<pk>/ and GET /api/rooms/<pk>/
Read(auth, kind, pk) ==
    /\ ops > 0
    /\ kind \in {HOUSE, ROOM}
    /\ IF HasPermission(auth)
       THEN /\ pk \in DOMAIN db[kind]
            /\ last' = [op |-> "read", auth |-> auth, kind |-> kind, pk |-> pk,
                        data |-> IF kind = HOUSE
                                 THEN HouseData(db, nextId, pk)
                                 ELSE RoomData(db, nextId, pk)]
            /\ UNCHANGED <<db, nextId, records, nextRec, now, inst>>
       ELSE Denied("GET", kind)
    /\ ops' = ops - 1

\* POST on the admin add form of TrackRecord
AdminAdd(c) ==
    /\ ops > 0
    /\ IF HasAddPermission
       THEN LET r == CreateAll(<<c>>, db, records, nextRec, now)
            IN  /\ nextRec <= MaxRecords
                /\ records' = r.records
                /\ nextRec' = r.nextRec
                /\ now' = r.now
                /\ last' = [op |-> "admin", act |-> "add", err |-> r.err]
       ELSE /\ last' = [op |-> "admin", act |-> "add", err |-> {"PermissionDenied"}]
            /\ UNCHANGED <<records, nextRec, now>>
    /\ ops' = ops - 1
    /\ UNCHANGED <<db, nextId, inst>>

\* POST of data on the admin change form of the k-th TrackRecord: the form
\* holds the fields that are not read-only, then save_model calls obj.save(),
\* which validates and sets modified (auto_now)
AdminChange(k, data) ==
    /\ ops > 0
    /\ k \in 1..Len(records)
    /\ LET obj == records[k]
           ro == GetReadonlyFields(TRUE)
           new == [f \in DOMAIN obj |->
                      IF f \in DOMAIN data /\ f \notin ro THEN data[f] ELSE obj[f]]
           e == FullClean(new, db)
       IN  IF e # {}
           THEN /\ last' = [op |-> "admin", act |-> "change", err |-> e]
                /\ UNCHANGED <<records, now>>
           ELSE /\ records' = [records EXCEPT ![k] = [new EXCEPT !.modified = now]]
                /\ now' = now + 1
                /\ last' = [op |-> "admin", act |-> "change", err |-> {}]
    /\ ops' = ops - 1
    /\ UNCHANGED <<db, nextId, nextRec, inst>>

\* POST on the admin delete confirmation of the k-th TrackRecord (or the
\* change list's "delete selected" action on it)
AdminDelete(k) ==
    /\ ops > 0
    /\ k \in 1..Len(records)
    /\ IF HasDeletePermission
       THEN /\ records' = RemoveAt(records, k)
            /\ last' = [op |-> "admin", act |-> "delete", err |-> {}]
       ELSE /\ last' = [op |-> "admin", act |-> "delete", err |-> {"PermissionDenied"}]
            /\ UNCHANGED records
    /\ ops' = ops - 1
    /\ UNCHANGED <<db, nextId, nextRec, now, inst>>

\* The same requests from a client that is not logged in
Anonymous ==
    \/ CreateHouse(FALSE, AnonymousName)
    \/ UpdateHouse(FALSE, 1, AnonymousName)
    \/ \E kind \in equipments :
          Create(FALSE, kind, AnonymousName, 1, AnonymousVals(kind))
    \/ \E kind \in equipments :
          ApiUpdate(FALSE, kind, 1, AnonymousName, 1, AnonymousVals(kind))
    \/ \E kind \in Kinds : Delete(FALSE, kind, 1)
    \/ \E kind \in {HOUSE, ROOM} : Read(FALSE, kind, 1)

Next ==
    \/ \E name \in CreateNames : CreateHouse(TRUE, name)
    \/ \E pk \in 1..MaxId, name \in Names : UpdateHouse(TRUE, pk, name)
    \/ \E kind \in equipments, name \in CreateNames, owner \in 1..MaxId :
          \E vals \in ValsInputs(kind) : Create(TRUE, kind, name, owner, vals)
    \/ \E kind \in equipments, pk \in 1..MaxId, name \in Names, owner \in 1..MaxId :
          \E vals \in ValsInputs(kind) : ApiUpdate(TRUE, kind, pk, name, owner, vals)
    \/ \E s \in Slots, kind \in equipments, pk \in 1..MaxId : Load(s, kind, pk)
    \/ \E s \in Slots, name \in Names : AssignName(s, name)
    \/ \E s \in Slots, owner \in 1..MaxId : AssignOwner(s, owner)
    \/ \E s \in Slots, field \in DecimalFields \cup {"mode", "state"} :
          \E v \in FieldInputs(field) : Assign(s, field, v)
    \/ \E s \in Slots : Save(s)
    \/ \E kind \in Kinds, pk \in 1..MaxId : Delete(TRUE, kind, pk)
    \/ \E c \in DirectInputs : CreateTrackRecord(c)
    \/ \E value \in Lookups \cup {""} : AdminList(value)
    \/ \E kind \in {HOUSE, ROOM}, pk \in 1..MaxId : Read(TRUE, kind, pk)
    \/ Anonymous
    \/ \E c \in DirectInputs : AdminAdd(c)
    \/ \E k \in 1..MaxRecords, data \in ChangeInputs : AdminChange(k, data)
    \/ \E k \in 1..MaxRecords : AdminDelete(k)

Spec == Init /\ [][Next]_vars

-----------------------------------------------------------------------------
(* Callers that hold instances of the same rows: each loads Room 1, Light 1  *)
(* or Thermostat 1, assigns fields and saves, in any interleaving.           *)

Callers == 1..MaxCallers

\* The field values given to the constructor of a new instance
NewVals(kind) ==
    CASE kind = THERMOSTAT ->
            [mode |-> "cool", current_temperature |-> Dec(3000, 2),
             temperature_set_point |-> Dec(4500, 2)]
      [] kind = ROOM -> [current_temperature |-> Dec(3000, 2)]
      [] kind = LIGHT -> [state |-> "on"]

CallerKinds == {ROOM, LIGHT, THERMOSTAT}
CallerFields == {"current_temperature", "mode", "state"}

InitCallers ==
    /\ Fixture
    /\ inst = [s \in Callers |-> NoInst]
    /\ ops = MaxCallerOps

NextCallers ==
    \/ \E s \in Callers, kind \in CallerKinds : Load(s, kind, 1)
    \/ \E s \in Callers, kind \in CallerKinds, pk \in {NoPk, MaxId} :
          New(s, kind, pk, "n1", 1, NewVals(kind))
    \/ \E s \in Callers, field \in CallerFields :
          \E v \in FieldInputs(field) : Assign(s, field, v)
    \/ \E s \in Callers : Save(s)

SpecCallers == InitCallers /\ [][NextCallers]_vars

-----------------------------------------------------------------------------
(* Callers that hold TrackRecords: Room 1 and Light 1 are updated through   *)
(* the API and deleted while a caller reads TrackRecords and renders them.  *)

\* record = TrackRecord.objects.get(id=records[k].id), kept by a caller
LoadRecord(s, k) ==
    /\ ops > 0
    /\ k \in 1..Len(records)
    /\ inst' = [inst EXCEPT ![s] = RecordInstance(records[k])]
    /\ last' = [op |-> "loadrecord", slot |-> s, err |-> {}]
    /\ ops' = ops - 1
    /\ UNCHANGED <<db, nextId, records, nextRec, now>>

\* str(record) of a TrackRecord a caller holds
Render(s) ==
    /\ ops > 0
    /\ inst[s] # NoInst
    /\ inst[s].kind = TRACKRECORD
    /\ LET i == inst[s]
           t == Target(i, db)
           r == Str(TrackRecordStr(i, t))
       IN  /\ inst' = [inst EXCEPT ![s].cache = t]
           /\ last' = [op |-> "render", slot |-> s, inst |-> i,
                       display |-> r.value, err |-> r.err]
    /\ ops' = ops - 1
    /\ UNCHANGED <<db, nextId, records, nextRec, now>>

RenderKinds == {ROOM, LIGHT}

InitRender ==
    /\ Fixture
    /\ inst = [s \in Slots |-> NoInst]
    /\ ops = MaxRenderOps

NextRender ==
    \/ \E kind \in RenderKinds, name \in Names :
          \E vals \in ValsInputs(kind) : ApiUpdate(TRUE, kind, 1, name, 1, vals)
    \/ \E kind \in RenderKinds : Delete(TRUE, kind, 1)
    \/ \E s \in Slots, k \in 1..MaxRecords : LoadRecord(s, k)
    \/ \E s \in Slots : Render(s)

SpecRender == InitRender /\ [][NextRender]_vars

-----------------------------------------------------------------------------
(* Vocabulary of the properties *)

\* The label the data model gives each monitored field
FieldLabel(field) ==
    CASE field = "current_temperature" -> "Temperature"
      [] field = "temperature_set_point" -> "Temperature set point"
      [] field = "mode" -> "Mode"
      [] field = "state" -> "State"

\* A stored value as the audit log is to show it: a decimal with exactly two
\* fraction digits, a mode or a light state as it is
TwoDigits(n) == Digit[n \div 10] \o Digit[n % 10]

Shown(field, v) ==
    IF field \in DecimalFields
    THEN LET c == v.u * Pow10(2 - v.e)
         IN  (IF c < 0 THEN "-" ELSE "") \o NatStr(Abs(c) \div 100)
                 \o "." \o TwoDigits(Abs(c) % 100)
    ELSE v

\* Two values of a field differ (30 and 30.00 do not)
Differs(field, a, b) ==
    IF field \in DecimalFields
    THEN a.u * Pow10(2 - a.e) # b.u * Pow10(2 - b.e)
    ELSE a # b

\* This step is a create: a table has handed out a fresh primary key
CreateStep == nextId' # nextId

\* This step is instance.save() of a Room, Light or Thermostat that has a
\* primary key; last'.inst is the instance as it was handed to save
UpdateStep == ops' # ops /\ last'.op = "update" /\ last'.kind \in equipments

\* ... and its row exists
UpdateOfExisting == UpdateStep /\ last'.pk \in DOMAIN db[last'.kind]

\* The TrackRecords this step has appended
Appended == SubSeq(records', Len(records) + 1, Len(records'))

AppendOnly == Len(records') >= Len(records) /\ SubSeq(records', 1, Len(records)) = records

\* The monitored fields whose pending value differs from the snapshot
ChangedFields(i) ==
    {f \in FieldsOf(i.kind) :
        f \notin DOMAIN i.saved \/ Differs(f, i.saved[f], i.vals[f])}

\* The records of R that target the row (kind, pk)
RecordsOf(R, kind, pk) ==
    {k \in 1..Len(R) : R[k].target_content_type = kind /\ R[k].target_object_id = pk}

-----------------------------------------------------------------------------
(* Properties *)

\* C1: creating a Room, Light or Thermostat (or a House) never appends a
\* TrackRecord, whatever the initial values: the TrackRecord table is the same
\* before and after every create.
C1_CreateAppendsNoRecord == [][CreateStep => records' = records]_vars

\* C1 witness: a Thermostat was created with a mode other than the default
\* "off" and a temperature given as an integer, and its row is stored.
C1_Witness ==
    /\ last.op = "create"
    /\ last.kind = THERMOSTAT
    /\ last.err = {}
    /\ last.inst.vals.mode = "fan"
    /\ last.inst.vals.current_temperature = Dec(77, 0)
    /\ last.pk \in DOMAIN db[THERMOSTAT]
    /\ db[THERMOSTAT][last.pk].vals.mode = "fan"

\* C2 (as claimed): every update of an existing Room, Light or Thermostat
\* appends as many TrackRecords as monitored fields differ from the snapshot,
\* exactly one per changed field.
C2_OneRecordPerChangedField ==
    [][UpdateOfExisting =>
          /\ AppendOnly
          /\ Len(Appended) = Cardinality(ChangedFields(last'.inst))
          /\ \A f \in ChangedFields(last'.inst) :
                Cardinality({k \in 1..Len(Appended) :
                                Appended[k].state_type = FieldLabel(f)}) = 1]_vars

\* C2, for the updates that save() completes: one TrackRecord per changed
\* field.
C2_OneRecordPerChangedFieldWhenSaved ==
    [][(UpdateOfExisting /\ last'.err = {}) =>
          /\ AppendOnly
          /\ Len(Appended) = Cardinality(ChangedFields(last'.inst))
          /\ \A f \in ChangedFields(last'.inst) :
                Cardinality({k \in 1..Len(Appended) :
                                Appended[k].state_type = FieldLabel(f)}) = 1]_vars

\* C3 (as claimed): every TrackRecord appended by an update has the label of
\* a monitored field as state_type, the field's value before the update as
\* from_state and its value after the update as to_state, decimals shown with
\* exactly two fraction digits.
C3_RecordCarriesLabelAndValues ==
    [][UpdateOfExisting =>
          \A k \in 1..Len(Appended) :
              \E f \in FieldsOf(last'.kind) :
                  /\ Appended[k].state_type = FieldLabel(f)
                  /\ Appended[k].from_state
                        = Shown(f, db[last'.kind][last'.pk].vals[f])
                  /\ last'.pk \in DOMAIN db'[last'.kind]
                  /\ Appended[k].to_state
                        = Shown(f, db'[last'.kind][last'.pk].vals[f])]_vars

\* C3, for updates through the REST API, whose serializer quantizes the
\* decimals: label, from_state and to_state as claimed.
C3_ApiRecordCarriesLabelAndValues ==
    [][(UpdateOfExisting
            /\ \A g \in FieldsOf(last'.kind) \cap DecimalFields :
                  last'.inst.vals[g].e = 2 /\ last'.inst.saved[g].e = 2
            /\ \A h \in FieldsOf(last'.kind) :
                  last'.inst.saved[h] = db[last'.kind][last'.pk].vals[h]
            /\ last'.err = {}) =>
          \A k \in 1..Len(Appended) :
              \E f \in FieldsOf(last'.kind) :
                  /\ Appended[k].state_type = FieldLabel(f)
                  /\ Appended[k].from_state
                        = Shown(f, db[last'.kind][last'.pk].vals[f])
                  /\ Appended[k].to_state
                        = Shown(f, db'[last'.kind][last'.pk].vals[f])]_vars

\* C4: an update that changes only name and/or the owner reference (to an
\* existing owner), every monitored field keeping its value, appends no
\* TrackRecord and persists the new name and owner.
C4_UnmonitoredChangeAppendsNothing ==
    [][(UpdateOfExisting
            /\ ChangedFields(last'.inst) = {}
            /\ last'.inst.owner \in DOMAIN db[OwnerKind(last'.kind)]) =>
          /\ records' = records
          /\ last'.err = {}
          /\ db'[last'.kind][last'.pk].name = last'.inst.name
          /\ db'[last'.kind][last'.pk].owner = last'.inst.owner]_vars

\* C4 witness: a Thermostat was renamed and moved to another House in one
\* update that left mode and both temperatures as they were.
C4_Witness ==
    /\ last.op = "update"
    /\ last.kind = THERMOSTAT
    /\ last.err = {}
    /\ ChangedFields(last.inst) = {}
    /\ last.inst.name = "n2"
    /\ last.inst.owner = 2
    /\ db[THERMOSTAT][last.pk].name = "n2"
    /\ db[THERMOSTAT][last.pk].owner = 2
    /\ records = <<>>

\* This step is a request to the admin pages of TrackRecord
AdminStep == ops' # ops /\ last'.op = "admin"

\* C5: deleting a Room, Light or Thermostat removes its TrackRecords in the
\* same step: no step removes the row and leaves one of its TrackRecords, and
\* no operation on the entities removes a TrackRecord of a row that stays.
C5_DeleteRemovesRecordsWithRow ==
    [][\A kind \in equipments :
          \A pk \in DOMAIN db[kind] :
              /\ pk \notin DOMAIN db'[kind] => RecordsOf(records', kind, pk) = {}
              /\ (pk \in DOMAIN db'[kind] /\ ~AdminStep) =>
                    \A k \in RecordsOf(records, kind, pk) :
                        \E j \in 1..Len(records') : records'[j] = records[k]]_vars

\* C5 witness: the Thermostat got three TrackRecords from one update and was
\* deleted next; its row and all three records are gone, the other rows stay.
C5_Witness ==
    /\ ops = MaxOps - 2
    /\ last.op = "delete"
    /\ last.kind = THERMOSTAT
    /\ nextRec = 4
    /\ records = <<>>
    /\ DOMAIN db[THERMOSTAT] = {}
    /\ DOMAIN db[ROOM] = {1}
    /\ DOMAIN db[LIGHT] = {1}

\* The message of TrackRecord's validation error for an unresolved target
DoesNotExistMessage(kind, pk) == kind \o " with id " \o Digit[pk] \o " does not exist!"

\* C6: creating a TrackRecord directly with a (target type, target id) that
\* resolves to no row of that type fails with a validation error carrying
\* "<type> with id <id> does not exist!", and persists no TrackRecord.
C6_UnresolvedTargetRejected ==
    [][(ops' # ops /\ last'.op = "track"
            /\ last'.args.target_object_id
                  \notin DOMAIN db[last'.args.target_content_type]) =>
          /\ records' = records
          /\ DoesNotExistMessage(last'.args.target_content_type,
                                 last'.args.target_object_id) \in last'.err]_vars

\* C6 witness: a TrackRecord for Room 2, which does not exist, was refused
\* with "room with id 2 does not exist!".
C6_Witness ==
    /\ last.op = "track"
    /\ last.args.target_content_type = ROOM
    /\ last.args.target_object_id = 2
    /\ 2 \notin DOMAIN db[ROOM]
    /\ last.err = {"room with id 2 does not exist!"}
    /\ records = <<>>

\* C7: in every reachable state the target of every TrackRecord resolves to
\* a row that exists.
C7_EveryTargetResolves ==
    \A k \in 1..Len(records) :
        records[k].target_object_id \in DOMAIN db[records[k].target_content_type]

\* C7 witness: after a cascading delete of a Room some TrackRecord of a row
\* that stayed is still in the table.
C7_Witness ==
    /\ last.op = "delete"
    /\ last.kind = ROOM
    /\ DOMAIN db[LIGHT] = {}
    /\ Len(records) >= 1
    /\ nextRec > Len(records) + 1

\* C8 (as claimed): an update during which a TrackRecord creation fails has
\* no effect: no TrackRecord of the update stays and the row is unchanged.
C8_FailedUpdateHasNoEffect ==
    [][(UpdateStep /\ last'.err # {}) => (records' = records /\ db' = db)]_vars

\* The target type the admin filter selects for a lookup value
LookupKind(value) ==
    CASE value = "Light" -> "light"
      [] value = "Room" -> "room"
      [] value = "Thermostat" -> "thermostat"

\* The rows of a sequence, as a set
Rows(q) == {q[k] : k \in 1..Len(q)}

\* C9: the change list filtered by an equipment kind holds exactly the
\* TrackRecords whose target type is that kind, each once; without a kind it
\* holds every TrackRecord.
C9_FilterSelectsKind ==
    last.op = "list" =>
        /\ Cardinality(Rows(last.result)) = Len(last.result)
        /\ Rows(last.result) =
              IF last.value = ""
              THEN Rows(records)
              ELSE {r \in Rows(records) :
                        r.target_content_type = LookupKind(last.value)}

\* C9 witness: the list filtered by "Light" shows a Light's TrackRecord while
\* the table also holds a TrackRecord of another kind.
C9_Witness ==
    /\ last.op = "list"
    /\ last.value = "Light"
    /\ Len(last.result) = 1
    /\ last.result[1].target_content_type = LIGHT
    /\ Len(records) = 2

\* C10: the change list, filtered or not, is ordered by modified descending.
C10_ListNewestFirst ==
    last.op = "list" =>
        \A a, b \in 1..Len(last.result) :
            a < b => last.result[a].modified >= last.result[b].modified

\* C10 witness: a list of several TrackRecords with different modified
\* timestamps, the newest first.
C10_Witness ==
    /\ last.op = "list"
    /\ Len(last.result) >= 2
    /\ last.result[1].modified > last.result[2].modified

\* The target types the audit log admits
TrackableTypes == {"room", "light", "thermostat"}

\* C11: every persisted TrackRecord has a target type among Room, Light and
\* Thermostat, and a direct creation that names another type (a House, also
\* one that exists) is rejected.
C11_TargetTypeInClosedSet ==
    /\ \A k \in 1..Len(records) : records[k].target_content_type \in TrackableTypes
    /\ (last.op = "track" /\ last.args.target_content_type \notin TrackableTypes)
          => last.err # {}

\* C11 witness: a TrackRecord for House 1, which exists, was refused and the
\* table stayed empty.
C11_Witness ==
    /\ last.op = "track"
    /\ last.args.target_content_type = HOUSE
    /\ last.args.target_object_id \in DOMAIN db[HOUSE]
    /\ last.err # {}
    /\ records = <<>>

\* A TrackRecord without its modified timestamp
Content(r) == [f \in DOMAIN r \ {"modified"} |-> r[f]]

Contents(R) == [k \in 1..Len(R) |-> Content(R[k])]

\* The k-th TrackRecord is still in the table after the step, with the same
\* name, target, state_type, from_state and to_state
Kept(k) == \E j \in 1..Len(records') : Content(records'[j]) = Content(records[k])

\* The target of the k-th TrackRecord is deleted by the step
TargetDeleted(k) ==
    records[k].target_object_id \notin DOMAIN db'[records[k].target_content_type]

\* C12 (as claimed): a TrackRecord, once created, stays in the table with its
\* name, target type, target id, state_type, from_state and to_state as they
\* are, until a step that deletes its target.
C12_AppendOnly ==
    [][\A k \in 1..Len(records) : Kept(k) \/ TargetDeleted(k)]_vars

\* C12, for the operations on the entities (creates, updates, deletes, direct
\* TrackRecord creations): append-only as claimed.
C12_AppendOnlyUnderEntityOperations ==
    [][~AdminStep => \A k \in 1..Len(records) : Kept(k) \/ TargetDeleted(k)]_vars

\* C13 (as claimed): no request to the admin pages of TrackRecord adds a
\* record, alters a field other than modified, or removes a record.
C13_AdminIsReadOnly ==
    [][AdminStep => Contents(records') = Contents(records)]_vars

\* C13, for the add and change pages: nothing is added, and no field other
\* than modified is altered.
C13_AdminAddsAndAltersNothing ==
    [][(AdminStep /\ last'.act # "delete") =>
          Contents(records') = Contents(records)]_vars

\* Every Room and Thermostat references a House that exists, every Light a
\* Room that exists
OwnersExist ==
    \A kind \in equipments :
        \A pk \in DOMAIN db[kind] : db[kind][pk].owner \in DOMAIN db[OwnerKind(kind)]

\* The row (kind, pk) of the state before the step and its TrackRecords are
\* gone after it
Gone(kind, pk) ==
    pk \notin DOMAIN db'[kind] /\ RecordsOf(records', kind, pk) = {}

\* The Lights of Room r are gone with their TrackRecords
LightsGone(r) ==
    \A l \in DOMAIN db[LIGHT] : db[LIGHT][l].owner = r => Gone(LIGHT, l)

\* C14: a step that deletes a House leaves none of its Rooms, its Thermostats,
\* the Lights of its Rooms and their TrackRecords; a step that deletes a Room
\* leaves none of its Lights and their TrackRecords; and after every step every
\* Room and Thermostat references an existing House, every Light an existing
\* Room.
C14_OwnershipCascades ==
    [][/\ \A h \in DOMAIN db[HOUSE] :
              h \notin DOMAIN db'[HOUSE] =>
                  /\ \A r \in DOMAIN db[ROOM] :
                        db[ROOM][r].owner = h => (Gone(ROOM, r) /\ LightsGone(r))
                  /\ \A t \in DOMAIN db[THERMOSTAT] :
                        db[THERMOSTAT][t].owner = h => Gone(THERMOSTAT, t)
       /\ \A r \in DOMAIN db[ROOM] : r \notin DOMAIN db'[ROOM] => LightsGone(r)
       /\ OwnersExist']_vars

\* C14 witness: House 1 was deleted when it owned a Room with a Light and a
\* Thermostat and TrackRecords had been written: every table is empty.
C14_Witness ==
    /\ last.op = "delete"
    /\ last.kind = HOUSE
    /\ \A kind \in Kinds : DOMAIN db[kind] = {}
    /\ nextRec > 1
    /\ records = <<>>

\* The ids of the rows of a kind whose owner reference is pk
OwnedIds(kind, pk) == {x \in DOMAIN db[kind] : db[kind][x].owner = pk}

\* The list q holds exactly the ids of S, each once
ListsExactly(q, S) == Rows(q) = S /\ Len(q) = Cardinality(S)

\* C15: reading a House returns exactly the ids of the Rooms and of the
\* Thermostats whose house reference is now that House, reading a Room exactly
\* the ids of the Lights whose room reference is now that Room (an empty list
\* when there are none).
C15_NestedIdsAreCurrentOwnership ==
    last.op = "read" =>
        IF last.kind = HOUSE
        THEN /\ ListsExactly(last.data.rooms, OwnedIds(ROOM, last.pk))
             /\ ListsExactly(last.data.thermostats, OwnedIds(THERMOSTAT, last.pk))
        ELSE ListsExactly(last.data.lights, OwnedIds(LIGHT, last.pk))

\* C15 witness: Room 1 was moved to a second House; the read of that House
\* lists Room 1 and no Thermostat, while Room 1 is no longer of House 1.
C15_Witness ==
    /\ last.op = "read"
    /\ last.kind = HOUSE
    /\ last.pk = 2
    /\ last.data.rooms = <<1>>
    /\ last.data.thermostats = <<>>
    /\ db[ROOM][1].owner = 2
    /\ db[THERMOSTAT][1].owner = 1

\* This step is instance.save() by the caller holding slot s, and a load
SaveStepOf(s) == ops' # ops /\ last'.op = "update" /\ last'.slot = s
LoadStepOf(s) == ops' # ops /\ last'.op = "load" /\ last'.slot = s
\* ... and the construction of a new instance, which the caller now holds
NewStepOf(s) == ops' # ops /\ last'.op = "new" /\ last'.slot = s

\* The snapshot of an instance numerically equals the values vals
SnapshotIs(i, vals) ==
    /\ DOMAIN i.saved = DOMAIN vals
    /\ \A f \in DOMAIN vals : ValEq(f, i.saved[f], vals[f])

\* C16: the snapshot of a caller's instance is the stored row when it is
\* loaded, changes in no step other than a load or a successful save of that
\* instance (not by reads, assignments or other callers; a caller that builds
\* a new instance holds another instance from then on), and after a
\* successful save equals the values that save wrote; so a save that directly
\* follows a successful save of the same instance appends nothing, and every
\* record a save appends has as from_state the snapshot left by the
\* instance's previous save (or its load).
C16_SnapshotFollowsLoadAndSave ==
    [][\A s \in DOMAIN inst :
          /\ LoadStepOf(s) => inst'[s].saved = db[last'.kind][last'.pk].vals
          /\ (inst[s] # NoInst /\ inst'[s].saved # inst[s].saved) =>
                (LoadStepOf(s) \/ NewStepOf(s) \/ (SaveStepOf(s) /\ last'.err = {}))
          /\ (SaveStepOf(s) /\ last'.err = {}) =>
                SnapshotIs(inst'[s], db'[last'.kind][inst'[s].pk].vals)
          /\ (SaveStepOf(s) /\ last.op = "update" /\ last.slot = s
                  /\ last.err = {}) => records' = records
          /\ SaveStepOf(s) =>
                \A k \in 1..Len(Appended) :
                    \E f \in FieldsOf(last'.kind) :
                        /\ Appended[k].state_type = FieldLabel(f)
                        /\ Appended[k].from_state = ToStr(f, inst[s].saved[f])]_vars

\* C16 witness: a caller loaded Room 1 (77.00), assigned the integer 77 and
\* saved, which left the snapshot 77; then assigned 30.00 and saved: the one
\* record goes from the value of the previous save to 30.00.
C16_Witness ==
    /\ last.op = "update"
    /\ last.kind = ROOM
    /\ last.err = {}
    /\ last.pk = 1
    /\ ~last.inst.adding
    /\ last.inst.saved.current_temperature = Dec(77, 0)
    /\ Len(records) = 1
    /\ records[1].from_state = "77"
    /\ records[1].to_state = "30.00"
    /\ db[ROOM][1].vals.current_temperature = Dec(3000, 2)
    /\ inst[last.slot].saved.current_temperature = Dec(3000, 2)

\* C17: every save by a caller of an instance it loaded (or has saved before)
\* is accepted, whatever other callers have written since the instance was
\* loaded, and the row afterwards holds the name, owner and field values of
\* the instance that saved last.
C17_LastSaveWins ==
    [][\A s \in DOMAIN inst :
          (SaveStepOf(s) /\ ~inst[s].adding) =>
              /\ last'.err = {}
              /\ db'[last'.kind][last'.pk].name = inst[s].name
              /\ db'[last'.kind][last'.pk].owner = inst[s].owner
              /\ \A f \in FieldsOf(last'.kind) :
                    ValEq(f, db'[last'.kind][last'.pk].vals[f], inst[s].vals[f])]_vars

\* C17 witness: two callers loaded Thermostat 1; one saved mode fan, then the
\* other, whose instance still holds mode cool, saved temperature 77: both
\* saves were accepted and the row holds the second caller's values.
C17_Witness ==
    /\ last.op = "update"
    /\ last.kind = THERMOSTAT
    /\ last.err = {}
    /\ last.pk = 1
    /\ ~last.inst.adding
    /\ last.inst.saved.mode = "cool"
    /\ last.inst.vals.mode = "cool"
    /\ \E k \in 1..Len(records) :
          records[k].state_type = "Mode" /\ records[k].to_state = "fan"
    /\ \E s \in DOMAIN inst :
          s # last.slot /\ inst[s] # NoInst /\ inst[s].kind = THERMOSTAT
              /\ inst[s].pk = 1 /\ ~inst[s].adding /\ inst[s].saved.mode = "fan"
    /\ db[THERMOSTAT][1].vals.mode = "cool"
    /\ db[THERMOSTAT][1].vals.current_temperature = Dec(7700, 2)

\* This step is a request of a client that is not logged in
AnonymousStep == ops' # ops /\ "auth" \in DOMAIN last' /\ ~last'.auth

\* C18: a create, update or delete request (or a read) made without
\* authentication is answered 403 and changes neither the entity tables nor
\* the TrackRecord table.
C18_UnauthenticatedRequestRejected ==
    [][AnonymousStep =>
          /\ last'.op = "denied"
          /\ last'.status = 403
          /\ db' = db
          /\ nextId' = nextId
          /\ records' = records
          /\ nextRec' = nextRec]_vars

\* C18 witness: after a TrackRecord was written for Thermostat 1, a DELETE of
\* a thermostat without authentication was refused; the row and its record
\* are still there.
C18_Witness ==
    /\ last.op = "denied"
    /\ last.method = "DELETE"
    /\ last.kind = THERMOSTAT
    /\ 1 \in DOMAIN db[THERMOSTAT]
    /\ RecordsOf(records, THERMOSTAT, 1) # {}

\* C19 (as claimed): a save of an instance that has never been persisted,
\* built without an id or with an explicitly chosen one, does not reach the
\* TrackRecord append: it appends nothing and raises no validation error of a
\* TrackRecord.
C19_NeverPersistedSaveAppendsNothing ==
    [][\A s \in DOMAIN inst :
          (SaveStepOf(s) /\ inst[s].adding) =>
              /\ records' = records
              /\ last'.err \subseteq {"IntegrityError"}]_vars

\* C19, for instances built without an id: the save inserts the row and
\* appends nothing.
C19_SaveWithoutIdAppendsNothing ==
    [][\A s \in DOMAIN inst :
          (SaveStepOf(s) /\ inst[s].adding /\ inst[s].pk = NoPk) =>
              /\ records' = records
              /\ last'.err = {}
              /\ inst'[s].pk \in DOMAIN db'[last'.kind]]_vars

\* C20: every TrackRecord appended by an update of a Room, Light or
\* Thermostat targets the row being saved, by type and id, and its name is the
\* name the instance has in that update, which is the stored name once the
\* update has completed (the new name when the update renames the row).
C20_RecordTargetsSavedEntity ==
    [][UpdateStep =>
          \A k \in 1..Len(Appended) :
              /\ Appended[k].target_content_type = last'.kind
              /\ Appended[k].target_object_id = last'.pk
              /\ Appended[k].name = last'.inst.name
              /\ last'.err = {} =>
                    Appended[k].name = db'[last'.kind][last'.pk].name]_vars

\* C20 witness: the first operation renamed Thermostat 1 from n1 to n2 and
\* changed monitored fields; every record targets Thermostat 1 and is named
\* n2.
C20_Witness ==
    /\ ops = MaxOps - 1
    /\ last.op = "update"
    /\ last.kind = THERMOSTAT
    /\ last.err = {}
    /\ Len(records) >= 2
    /\ db[THERMOSTAT][1].name = "n2"
    /\ \A k \in 1..Len(records) :
          /\ records[k].name = "n2"
          /\ records[k].target_content_type = THERMOSTAT
          /\ records[k].target_object_id = 1

\* The place of a Thermostat's label in the order of its save hook
LabelRank(label) ==
    CASE label = "Temperature" -> 1
      [] label = "Temperature set point" -> 2
      [] label = "Mode" -> 3
      [] OTHER -> 4

\* C21: the TrackRecords one Thermostat update appends come in the order
\* Temperature, Temperature set point, Mode, each later in the table and with
\* a later timestamp than the one before; and the row is written only after
\* all of them: a step that changes the row has appended a record for every
\* changed field, and a step whose record creation failed has left the row as
\* it was.
C21_ThermostatOrderThenPersist ==
    [][(UpdateStep /\ last'.kind = THERMOSTAT) =>
          /\ \A a, b \in 1..Len(Appended) :
                a < b => /\ LabelRank(Appended[a].state_type)
                                < LabelRank(Appended[b].state_type)
                         /\ Appended[a].modified < Appended[b].modified
                         /\ Appended[a].id < Appended[b].id
          /\ db' # db =>
                \A f \in ChangedFields(last'.inst) :
                    \E k \in 1..Len(Appended) : Appended[k].state_type = FieldLabel(f)
          /\ last'.err # {} => db' = db]_vars

\* C21 witness: the first operation changed all three monitored fields of
\* Thermostat 1; the table holds Temperature, Temperature set point, Mode in
\* that order and the row holds the new values.
C21_Witness ==
    /\ ops = MaxOps - 1
    /\ last.op = "update"
    /\ last.kind = THERMOSTAT
    /\ last.err = {}
    /\ Len(records) = 3
    /\ records[1].state_type = "Temperature"
    /\ records[2].state_type = "Temperature set point"
    /\ records[3].state_type = "Mode"
    /\ db[THERMOSTAT][1].vals.mode = "fan"
    /\ db[THERMOSTAT][1].vals.temperature_set_point = Dec(7700, 2)

\* This step is the rendering of a TrackRecord a caller holds; last'.inst is
\* the instance as it was handed to str()
RenderStep == ops' # ops /\ last'.op = "render"

\* The canonical display string of record r for a target named n
Display(r, n) ==
    "[" \o n \o "] " \o r.state_type \o " has been changed from " \o r.from_state
        \o " to " \o r.to_state \o " at " \o NatStr(r.modified)

\* The instance resolves its target by a query when it is rendered: nothing
\* is cached on it yet
ResolvesByQuery(i) == i.cache = {}

TargetUnresolved(i) ==
    /\ i.cache = {}
    /\ i.rec.target_object_id \notin DOMAIN db[i.rec.target_content_type]

\* C23 (as claimed): rendering a TrackRecord whose target cannot be resolved
\* raises nothing and gives an empty display value.
C23_UnresolvedTargetRendersEmpty ==
    [][(RenderStep /\ TargetUnresolved(last'.inst)) =>
          (last'.err = {} /\ last'.display = "")]_vars

\* C24: a save compares each monitored field's snapshot with the value the
\* instance holds when save is called, whatever was assigned in between: for
\* a loaded instance, a field whose pending value does not differ from the
\* snapshot (assigned another value and then the snapshot value again, or a
\* value numerically equal to it, 77 for 77.00) gets no TrackRecord, and the
\* save is accepted when no field differs.
C24_ComparesAtSaveOnly ==
    [][\A s \in DOMAIN inst :
          (SaveStepOf(s) /\ ~inst[s].adding) =>
              /\ \A f \in FieldsOf(inst[s].kind) :
                    ~Differs(f, inst[s].saved[f], inst[s].vals[f]) =>
                        \A k \in 1..Len(Appended) :
                            Appended[k].state_type # FieldLabel(f)
              /\ ChangedFields(inst[s]) = {} => (records' = records /\ last'.err = {})]_vars

\* C24 witness: the only caller loaded Room 1 (snapshot 77.00), assigned
\* 30.00, assigned the integer 77 and saved, four operations in all: no
\* TrackRecord was appended and the row holds 77.00.
C24_Witness ==
    /\ ops = MaxCallerOps - 4
    /\ last.op = "update"
    /\ last.kind = ROOM
    /\ last.pk = 1
    /\ last.err = {}
    /\ ~last.inst.adding
    /\ last.inst.saved.current_temperature = Dec(7700, 2)
    /\ last.inst.vals.current_temperature = Dec(77, 0)
    /\ \A s \in DOMAIN inst : s # last.slot => inst[s] = NoInst
    /\ records = <<>>
    /\ db[ROOM][1].vals.current_temperature = Dec(7700, 2)

\* Records a and b of the table are about the same field of the same row
SameChain(a, b) ==
    /\ records[a].target_content_type = records[b].target_content_type
    /\ records[a].target_object_id = records[b].target_object_id
    /\ records[a].state_type = records[b].state_type

\* Record b is the next record after a about the same field of the same row
NextInChain(a, b) ==
    /\ a < b
    /\ SameChain(a, b)
    /\ \A c \in (a + 1)..(b - 1) : ~SameChain(a, c)

\* The value the fields of Room 1, Light 1 and Thermostat 1 had at creation,
\* as the audit log shows it
ShownAtCreation(kind, label) ==
    CASE kind = ROOM -> "77.00"
      [] kind = LIGHT -> "on"
      [] kind = THERMOSTAT /\ label = "Temperature" -> "30.00"
      [] kind = THERMOSTAT /\ label = "Temperature set point" -> "45.00"
      [] kind = THERMOSTAT /\ label = "Mode" -> "cool"

\* C25 (as claimed): of two records that follow one another for the same
\* field of the same row, the later one's from_state is the earlier one's
\* to_state, and the first record of a field of Room 1, Light 1 or Thermostat
\* 1 starts from the value the field had at creation.
C25_AuditChainContinuous ==
    /\ \A a, b \in 1..Len(records) :
          NextInChain(a, b) => records[b].from_state = records[a].to_state
    /\ \A b \in 1..Len(records) :
          (records[b].target_object_id = 1 /\ \A a \in 1..(b - 1) : ~SameChain(a, b))
              => records[b].from_state
                    = ShownAtCreation(records[b].target_content_type,
                                      records[b].state_type)

\* C26 (as claimed): a save of an existing Room, Light or Thermostat that
\* changes the stored value of a monitored field from v to w appends, in the
\* same step, a TrackRecord for that row and field with from_state v and
\* to_state w.
C26_NoUnauditedChange ==
    [][UpdateOfExisting =>
          \A f \in FieldsOf(last'.kind) :
              Differs(f, db[last'.kind][last'.pk].vals[f],
                         db'[last'.kind][last'.pk].vals[f]) =>
                  \E k \in 1..Len(Appended) :
                      /\ Appended[k].target_content_type = last'.kind
                      /\ Appended[k].target_object_id = last'.pk
                      /\ Appended[k].state_type = FieldLabel(f)
                      /\ Appended[k].from_state
                            = Shown(f, db[last'.kind][last'.pk].vals[f])
                      /\ Appended[k].to_state
                            = Shown(f, db'[last'.kind][last'.pk].vals[f])]_vars

\* max_digits of the DecimalFields
MaxDigits == 5

\* A value a DecimalField(max_digits=5, decimal_places=2) column can hold:
\* -999.99 .. 999.99
Storable(d) ==
    /\ d.e <= DecimalPlaces
    /\ Abs(Quantize(d).u) < Pow10(MaxDigits - DecimalPlaces) * Pow10(DecimalPlaces)

\* C27 (as claimed): an update of a Room or Thermostat whose decimal fields go
\* from storable values to storable values is accepted, and appends a
\* TrackRecord for each decimal field that changed.
C27_StorableDecimalUpdateSucceeds ==
    [][(UpdateOfExisting
            /\ last'.kind \in {ROOM, THERMOSTAT}
            /\ last'.inst.owner \in DOMAIN db[OwnerKind(last'.kind)]
            /\ \A f \in FieldsOf(last'.kind) \cap DecimalFields :
                  /\ f \in DOMAIN last'.inst.saved
                  /\ Storable(last'.inst.saved[f])
                  /\ Storable(last'.inst.vals[f])) =>
          /\ last'.err = {}
          /\ \A f \in ChangedFields(last'.inst) \cap DecimalFields :
                \E k \in 1..Len(Appended) : Appended[k].state_type = FieldLabel(f)]_vars

\* This step is an update of a row that has a primary key: a PUT on the API
\* (a House included) or instance.save() of an instance with a pk
AnyUpdateStep == ops' # ops /\ last'.op = "update" /\ last'.pk # NoPk

\* C28: an update of one row leaves every other row of every table as it was,
\* keeps every TrackRecord that existed and appends only TrackRecords that
\* target the updated row; an update of a House appends none.
C28_UpdateTouchesOnlyItsRow ==
    [][AnyUpdateStep =>
          /\ \A kind \in Kinds :
                /\ DOMAIN db'[kind] \ DOMAIN db[kind]
                      \subseteq (IF kind = last'.kind THEN {last'.pk} ELSE {})
                /\ \A pk \in DOMAIN db[kind] :
                      (kind # last'.kind \/ pk # last'.pk) =>
                          (pk \in DOMAIN db'[kind] /\ db'[kind][pk] = db[kind][pk])
          /\ AppendOnly
          /\ \A k \in 1..Len(Appended) :
                /\ Appended[k].target_content_type = last'.kind
                /\ Appended[k].target_object_id = last'.pk
          /\ last'.kind = HOUSE => records' = records]_vars

\* C28 witness: Light 1 had a TrackRecord and a second Room existed when Room
\* 1 was updated; the update appended Room 1's record after the Light's, and
\* Room 2 and Light 1 are as they were.
C28_Witness ==
    /\ last.op = "update"
    /\ last.kind = ROOM
    /\ last.pk = 1
    /\ last.err = {}
    /\ Len(records) = 2
    /\ records[1].target_content_type = LIGHT
    /\ records[2].target_content_type = ROOM
    /\ records[2].target_object_id = 1
    /\ 2 \in DOMAIN db[ROOM]
    /\ db[ROOM][2].vals.current_temperature # db[ROOM][1].vals.current_temperature
    /\ 1 \in DOMAIN db[LIGHT]

\* This step is a delete of the row (last'.kind, last'.pk)
DeleteStep == ops' # ops /\ last'.op = "delete"

\* The row (kind, pk) is the row (dk, dpk) or is owned by it, directly or
\* through a Room
OwnedBy(kind, pk, dk, dpk) ==
    \/ kind = dk /\ pk = dpk
    \/ kind \in {ROOM, THERMOSTAT} /\ dk = HOUSE /\ db[kind][pk].owner = dpk
    \/ kind = LIGHT /\ dk = ROOM /\ db[LIGHT][pk].owner = dpk
    \/ /\ kind = LIGHT
       /\ dk = HOUSE
       /\ db[LIGHT][pk].owner \in DOMAIN db[ROOM]
       /\ db[ROOM][db[LIGHT][pk].owner].owner = dpk

\* The TrackRecord r targets, by type and id, a row the deleted row owns
TargetsOwned(r, dk, dpk) ==
    /\ r.target_object_id \in DOMAIN db[r.target_content_type]
    /\ OwnedBy(r.target_content_type, r.target_object_id, dk, dpk)

\* C29: a delete removes no row but the deleted one and those it owns, leaves
\* every other row as it was, and removes exactly the TrackRecords whose
\* target type and target id are those of a removed row: the others stay, in
\* their order, also when their target id is the id of a removed row of another
\* type.
C29_DeleteRemovesOnlyOwnRecords ==
    [][DeleteStep =>
          /\ \A kind \in Kinds :
                \A pk \in DOMAIN db[kind] :
                    IF OwnedBy(kind, pk, last'.kind, last'.pk)
                    THEN pk \notin DOMAIN db'[kind]
                    ELSE pk \in DOMAIN db'[kind] /\ db'[kind][pk] = db[kind][pk]
          /\ records' = SelectSeq(records,
                                  LAMBDA r : ~TargetsOwned(r, last'.kind, last'.pk))]_vars

\* C29 witness: Light 1 and Thermostat 1 each had a TrackRecord when
\* Thermostat 1 was deleted; the record of Light 1, same id and other type, is
\* still there, as are House 1, Room 1 and Light 1.
C29_Witness ==
    /\ last.op = "delete"
    /\ last.kind = THERMOSTAT
    /\ last.pk = 1
    /\ nextRec = 3
    /\ Len(records) = 1
    /\ records[1].target_content_type = LIGHT
    /\ records[1].target_object_id = 1
    /\ DOMAIN db[THERMOSTAT] = {}
    /\ 1 \in DOMAIN db[LIGHT]
    /\ 1 \in DOMAIN db[ROOM]
    /\ 1 \in DOMAIN db[HOUSE]

====
